---- MODULE Spec2Model ----
(***************************************************************************)
(* The observability pipeline wired by this repository: the Node.js app    *)
(* (server.js), the docker-compose services, the OTel Collector pipelines, *)
(* the Prometheus scrape configuration and the Tempo receivers.            *)
(*                                                                         *)
(* A span is followed from span.end() in the app, through the SDK's span   *)
(* queue and the OTLP HTTP export, into the collector's pipelines and on   *)
(* to Tempo. A metric point is followed from the app's meter to the        *)
(* Prometheus scrape. Every network hop is resolved against the ports the  *)
(* configured services listen on, so a wrong URL or port loses the data.   *)
(***************************************************************************)
EXTENDS Integers, FiniteSets, Sequences, TLC

\* Number of HTTP requests the app serves in a run.
MaxRequests == 2

-----------------------------------------------------------------------------
(* Configuration, as written in the source files.                          *)

\* docker-compose.yml: the five services of the compose network.
Services == {"node-app", "tempo", "prometheus", "grafana", "otel-collector"}

\* server.js: new PrometheusExporter({ port: 9464, startServer: true }).
prometheusExporter_noServer == [port |-> 9464, startServer |-> FALSE]

prometheusExporter == [port |-> 9464, startServer |-> TRUE]

\* otel-setup.js (not loaded by server.js): url http://localhost:4318/v1/traces.
traceExporter_localhost == [host |-> "localhost", port |-> 4318, path |-> "/v1/traces"]

\* server.js: new OTLPTraceExporter({ url: 'http://otel-collector:4318/v1/traces' }).
traceExporter == [host |-> "otel-collector", port |-> 4318, path |-> "/v1/traces"]

\* server.js: the NodeSDK options. The trace side pushes over OTLP; the
\* metric side is a pull reader (the Prometheus exporter): the SDK has no
\* OTLP exporter for metrics.
sdk ==
  [ resource      |-> "node-api",
    traceExporter |-> traceExporter,
    metricReader  |-> prometheusExporter ]

\* otel-collector-config.yaml: receivers.otlp.protocols {grpc, http}; the
\* ports are the ones the README names for the collector (4317 gRPC, 4318 HTTP).
CollectorReceivers ==
  { [port |-> 4317, proto |-> "otlp-grpc"],
    [port |-> 4318, proto |-> "otlp-http"] }

\* otel-collector-config.yaml: exporters.
CollectorExporters ==
  [ otlp       |-> [host |-> "tempo", port |-> 4317],
    prometheus |-> [host |-> "0.0.0.0", port |-> 8889],
    debug      |-> [host |-> "stdout", port |-> 0] ]

ExporterNames == {"otlp", "prometheus", "debug"}

\* otel-collector-config.yaml: service.pipelines.
CollectorPipelines ==
  [ traces  |-> [receivers |-> {"otlp"}, exporters |-> {"otlp", "debug"}],
    metrics |-> [receivers |-> {"otlp"}, exporters |-> {"prometheus", "debug"}] ]

\* The OTLP/HTTP path of each telemetry kind.
OtlpPath(kind) == IF kind = "traces" THEN "/v1/traces" ELSE "/v1/metrics"

\* prometheus.yml: scrape_configs[*].static_configs.targets.
ScrapeTargets ==
  { [job |-> "node-app", host |-> "node-app", port |-> 9464],
    [job |-> "otel-collector", host |-> "otel-collector", port |-> 8889] }

\* docker-compose.yml: the ports each service publishes (container side).
ComposePorts ==
  [ s \in Services |->
      CASE s = "node-app" -> {3000, 9464}
        [] s = "tempo" -> {4317, 3200}
        [] s = "prometheus" -> {9090}
        [] s = "grafana" -> {3000}
        [] s = "otel-collector" -> {4318, 8889} ]

\* tempo.yaml: server ports and distributor.receivers.otlp.protocols.
TempoListeners ==
  { [port |-> 3200, proto |-> "http-api"],
    [port |-> 9095, proto |-> "grpc-api"],
    [port |-> 4317, proto |-> "otlp-grpc"],
    [port |-> 4318, proto |-> "otlp-http"] }

\* README, Trace Flow 4 / Metrics Flow 4: the endpoints Grafana queries.
GrafanaDatasources ==
  [ tempo      |-> [host |-> "tempo", port |-> 3200],
    prometheus |-> [host |-> "prometheus", port |-> 9090] ]

-----------------------------------------------------------------------------
VARIABLES
  nodeApp,        \* the node process: "loaded", "started", "listening", "exited"
  exitCode,       \* exit code of the node process (-1 while it runs)
  nextReq,        \* number of requests served so far
  ended,          \* every span on which span.end() ran (history)
  spanQueue,      \* ended spans buffered in the SDK's span processor
  exportFailed,   \* spans whose OTLP export found nobody listening
  discarded,      \* spans still buffered when the process ended
  appMetrics,     \* metric points held by the app's meter
  recorded,       \* every metric point the app recorded (history)
  pending,        \* collector: records queued for each exporter
  collectorProm,  \* points served by the collector's prometheus exporter
  debugLog,       \* records printed by the collector's debug exporter
  tempoStore,     \* spans stored in Tempo, with the hops they took
  promStore,      \* samples scraped by Prometheus, with their target
  up,             \* Prometheus: result of the last scrape of each target
  grafanaTraces,  \* spans Grafana has read from its Tempo datasource
  grafanaMetrics  \* samples Grafana has read from its Prometheus datasource

vars ==
  << nodeApp, exitCode, nextReq, ended, spanQueue, exportFailed, discarded,
     appMetrics, recorded, pending, collectorProm, debugLog, tempoStore,
     promStore, up, grafanaTraces, grafanaMetrics >>

appVars == << nodeApp, exitCode, nextReq, ended, spanQueue, exportFailed,
              discarded, appMetrics, recorded >>

collectorVars == << pending, collectorProm, debugLog >>

backendVars == << tempoStore, promStore, up, grafanaTraces, grafanaMetrics >>

-----------------------------------------------------------------------------
(* The compose network.                                                    *)

\* The ports a service listens on, in the current state.
Listeners(svc) ==
  CASE svc = "node-app" ->
         IF nodeApp = "exited" THEN {}
         ELSE (IF sdk.metricReader.startServer
                 THEN {[port |-> sdk.metricReader.port, proto |-> "prom-metrics"]}
                 ELSE {})
              \cup (IF nodeApp = "listening"
                      THEN {[port |-> 3000, proto |-> "http-api"]}
                      ELSE {})
    [] svc = "otel-collector" ->
         CollectorReceivers
         \cup {[port |-> CollectorExporters.prometheus.port, proto |-> "prom-metrics"]}
    [] svc = "tempo" -> TempoListeners
    [] svc = "prometheus" -> {[port |-> 9090, proto |-> "http-api"]}
    [] svc = "grafana" -> {[port |-> 3000, proto |-> "http-api"]}

\* Name resolution inside a container: a compose service name is the service,
\* localhost is the container itself.
Resolve(from, host) ==
  IF host \in {"localhost", "127.0.0.1", "0.0.0.0"} THEN from ELSE host

\* The services that accept a connection from `from` to host:port speaking proto.
Connect(from, host, port, proto) ==
  { s \in Services :
      /\ s = Resolve(from, host)
      /\ [port |-> port, proto |-> proto] \in Listeners(s) }

-----------------------------------------------------------------------------
Init ==
  /\ nodeApp = "loaded"
  /\ exitCode = -1
  /\ nextReq = 0
  /\ ended = {}
  /\ spanQueue = {}
  /\ exportFailed = {}
  /\ discarded = {}
  /\ appMetrics = {}
  /\ recorded = {}
  /\ pending = [e \in ExporterNames |-> {}]
  /\ collectorProm = {}
  /\ debugLog = {}
  /\ tempoStore = {}
  /\ promStore = {}
  /\ up = [t \in ScrapeTargets |-> FALSE]
  /\ grafanaTraces = {}
  /\ grafanaMetrics = {}

-----------------------------------------------------------------------------
(* The Node.js process (server.js).                                        *)

\* The process ends. server.js registers no signal handler and never calls
\* sdk.shutdown(): whatever the span processor still buffers goes with the
\* process, and so does the meter's state.
ProcessEnd(code) ==
  /\ nodeApp' = "exited"
  /\ exitCode' = code
  /\ discarded' = discarded \cup spanQueue
  /\ spanQueue' = {}
  /\ appMetrics' = {}

\* try { sdk.start() } catch { process.exit(1) }
SdkStart ==
  /\ nodeApp = "loaded"
  /\ \E ok \in BOOLEAN :
       IF ok
         THEN /\ nodeApp' = "started"
              /\ UNCHANGED << exitCode, discarded, spanQueue, appMetrics >>
         ELSE ProcessEnd(1)
  /\ UNCHANGED << nextReq, ended, exportFailed, recorded >>
  /\ UNCHANGED << collectorVars, backendVars >>

\* startServer(): app.listen(3000, '0.0.0.0').
StartServer ==
  /\ nodeApp = "started"
  /\ nodeApp' = "listening"
  /\ UNCHANGED << exitCode, nextReq, ended, spanQueue, exportFailed, discarded,
                  appMetrics, recorded >>
  /\ UNCHANGED << collectorVars, backendVars >>

\* The span and the metric point the HTTP auto-instrumentation produces for
\* one served request.
HttpSpan(req, route, failed) ==
  [ req |-> req, name |-> "GET " \o route,
    status |-> IF failed THEN "ERROR" ELSE "UNSET" ]

HttpMetric(req, route) ==
  [ origin |-> "node-app", name |-> "http_server_duration", route |-> route, req |-> req ]

\* span.end() hands the span to the SDK's span processor, which buffers it
\* for the exporter.
EndSpans(spans) ==
  /\ ended' = ended \cup spans
  /\ spanQueue' = spanQueue \cup spans

RecordMetric(m) ==
  /\ appMetrics' = appMetrics \cup {m}
  /\ recorded' = recorded \cup {m}

\* app.get('/api/hello'): startSpan, setAttributes, res.json; an exception is
\* recorded on the span and rethrown; span.end() runs in the finally block.
HelloRequest ==
  /\ nodeApp = "listening"
  /\ nextReq < MaxRequests
  /\ nextReq' = nextReq + 1
  /\ \E throws \in BOOLEAN :
       LET span == [ req |-> nextReq + 1, name |-> "hello-endpoint",
                     status |-> IF throws THEN "ERROR" ELSE "UNSET" ]
       IN  EndSpans({span, HttpSpan(nextReq + 1, "/api/hello", throws)})
  /\ RecordMetric(HttpMetric(nextReq + 1, "/api/hello"))
  /\ UNCHANGED << nodeApp, exitCode, exportFailed, discarded >>
  /\ UNCHANGED << collectorVars, backendVars >>

\* app.get('/health'): no manual span.
HealthRequest ==
  /\ nodeApp = "listening"
  /\ nextReq < MaxRequests
  /\ nextReq' = nextReq + 1
  /\ EndSpans({HttpSpan(nextReq + 1, "/health", FALSE)})
  /\ RecordMetric(HttpMetric(nextReq + 1, "/health"))
  /\ UNCHANGED << nodeApp, exitCode, exportFailed, discarded >>
  /\ UNCHANGED << collectorVars, backendVars >>

\* External termination of the node process (docker stop, kill).
Terminate ==
  /\ nodeApp # "exited"
  /\ ProcessEnd(143)
  /\ UNCHANGED << nextReq, ended, exportFailed, recorded >>
  /\ UNCHANGED << collectorVars, backendVars >>

-----------------------------------------------------------------------------
(* The collector (otel-collector-config.yaml).                             *)

\* The otlp receiver hands the records of one request to every exporter of
\* the pipeline of their kind.
CollectorReceive(kind, items) ==
  LET tagged == { [ rec |-> i.rec, kind |-> kind,
                    hops |-> Append(i.hops, "otel-collector") ] : i \in items }
  IN  [ e \in ExporterNames |->
          IF /\ "otlp" \in CollectorPipelines[kind].receivers
             /\ e \in CollectorPipelines[kind].exporters
            THEN pending[e] \cup tagged
            ELSE pending[e] ]

\* The SDK's span processor exports the buffered spans: an HTTP POST to the
\* trace exporter's url, resolved inside the node-app container.
ExportSpans ==
  /\ nodeApp # "exited"
  /\ spanQueue # {}
  /\ LET url   == sdk.traceExporter
         items == { [rec |-> s, hops |-> << "node-app" >>] : s \in spanQueue }
         to    == Connect("node-app", url.host, url.port, "otlp-http")
     IN  /\ spanQueue' = {}
         /\ exportFailed' =
              IF to = {} \/ url.path # OtlpPath("traces")
                THEN exportFailed \cup spanQueue ELSE exportFailed
         /\ pending' =
              IF "otel-collector" \in to /\ url.path = OtlpPath("traces")
                THEN CollectorReceive("traces", items) ELSE pending
         /\ tempoStore' =
              IF "tempo" \in to /\ url.path = OtlpPath("traces")
                THEN tempoStore \cup
                       { [span |-> i.rec, hops |-> Append(i.hops, "tempo")] : i \in items }
                ELSE tempoStore
  /\ UNCHANGED << nodeApp, exitCode, nextReq, ended, discarded, appMetrics, recorded >>
  /\ UNCHANGED << collectorProm, debugLog >>
  /\ UNCHANGED << promStore, up, grafanaTraces, grafanaMetrics >>

\* One exporter of the collector sends what is queued for it.
CollectorExport(e) ==
  /\ pending[e] # {}
  /\ e = "otlp" =>
       Connect("otel-collector", CollectorExporters.otlp.host,
               CollectorExporters.otlp.port, "otlp-grpc") = {"tempo"}
  /\ pending' = [pending EXCEPT ![e] = {}]
  /\ tempoStore' =
       IF e = "otlp"
         THEN tempoStore \cup
                { [span |-> i.rec, hops |-> Append(i.hops, "tempo")] : i \in pending[e] }
         ELSE tempoStore
  /\ collectorProm' =
       IF e = "prometheus"
         THEN collectorProm \cup { i.rec : i \in pending[e] }
         ELSE collectorProm
  /\ debugLog' =
       IF e = "debug" THEN debugLog \cup pending[e] ELSE debugLog
  /\ UNCHANGED << appVars, promStore, up, grafanaTraces, grafanaMetrics >>

-----------------------------------------------------------------------------
(* Prometheus (prometheus.yml) and Grafana.                                *)

\* What a service answers on its /metrics endpoint.
Exposition(svc) ==
  IF svc = "node-app" THEN appMetrics
  ELSE IF svc = "otel-collector" THEN collectorProm
  ELSE {}

\* Prometheus scrapes one target (every scrape_interval).
Scrape(t) ==
  LET to == Connect("prometheus", t.host, t.port, "prom-metrics")
  IN  /\ up' = [up EXCEPT ![t] = (to # {})]
      /\ promStore' =
           promStore \cup
             { [point |-> p, job |-> t.job, svc |-> s] :
                 p \in UNION { Exposition(x) : x \in to }, s \in to }
      /\ << up', promStore' >> # << up, promStore >>
      /\ UNCHANGED << appVars, collectorVars, tempoStore, grafanaTraces, grafanaMetrics >>

\* Grafana reads the traces from its Tempo datasource.
GrafanaQueryTraces ==
  /\ Connect("grafana", GrafanaDatasources.tempo.host,
             GrafanaDatasources.tempo.port, "http-api") = {"tempo"}
  /\ grafanaTraces' = { i.span : i \in tempoStore }
  /\ grafanaTraces' # grafanaTraces
  /\ UNCHANGED << appVars, collectorVars, tempoStore, promStore, up, grafanaMetrics >>

\* Grafana reads the samples from its Prometheus datasource.
GrafanaQueryMetrics ==
  /\ Connect("grafana", GrafanaDatasources.prometheus.host,
             GrafanaDatasources.prometheus.port, "http-api") = {"prometheus"}
  /\ grafanaMetrics' = { i.point : i \in promStore }
  /\ grafanaMetrics' # grafanaMetrics
  /\ UNCHANGED << appVars, collectorVars, tempoStore, promStore, up, grafanaTraces >>

-----------------------------------------------------------------------------
Next ==
  \/ SdkStart
  \/ StartServer
  \/ HelloRequest
  \/ HealthRequest
  \/ Terminate
  \/ ExportSpans
  \/ \E e \in ExporterNames : CollectorExport(e)
  \/ \E t \in ScrapeTargets : Scrape(t)
  \/ GrafanaQueryTraces
  \/ GrafanaQueryMetrics

Spec == Init /\ [][Next]_vars

\* The span processor's export timer, the collector's exporters, Prometheus's
\* scrape loop and a process that is starting all keep running.
Fairness ==
  /\ WF_vars(SdkStart)
  /\ WF_vars(StartServer)
  /\ WF_vars(ExportSpans)
  /\ \A e \in ExporterNames : WF_vars(CollectorExport(e))
  /\ \A t \in ScrapeTargets : WF_vars(Scrape(t))
  /\ WF_vars(GrafanaQueryTraces)
  /\ WF_vars(GrafanaQueryMetrics)

FairSpec == Spec /\ Fairness

-----------------------------------------------------------------------------
(* Properties.                                                             *)

Requests == 1 .. MaxRequests

Running == nodeApp # "exited"

TempoSpans == { i.span : i \in tempoStore }

SpansOf(r) == { s \in ended : s.req = r }

PointsOf(r) == { m \in recorded : m.req = r }

CollectorPath == << "node-app", "otel-collector", "tempo" >>

\* C1: every span the app ends is exported over OTLP HTTP to
\* otel-collector:4318/v1/traces (no export fails), the collector's traces
\* pipeline forwards it over gRPC to tempo:4317, and Grafana reads from
\* tempo:3200 what Tempo stores; no span is in Tempo by a path other than
\* node-app -> otel-collector -> tempo; and while the services keep running,
\* every span ended by a request eventually is in Tempo.
C1_TraceFlow ==
  /\ [](exportFailed = {})
  /\ [](\A i \in tempoStore : i.hops = CollectorPath)
  /\ [](grafanaTraces \subseteq TempoSpans)
  /\ []( /\ Connect("node-app", sdk.traceExporter.host, sdk.traceExporter.port,
                    "otlp-http") = {"otel-collector"}
         /\ Connect("otel-collector", CollectorExporters.otlp.host,
                    CollectorExporters.otlp.port, "otlp-grpc") = {"tempo"}
         /\ Connect("grafana", GrafanaDatasources.tempo.host,
                    GrafanaDatasources.tempo.port, "http-api") = {"tempo"} )
  /\ ([]Running) =>
       \A r \in Requests :
         [](SpansOf(r) # {} => <>(SpansOf(r) \subseteq TempoSpans))

\* C1 witness: the hello-endpoint span of a request is stored in Tempo, having
\* come through the collector, and Grafana has read it.
C1_Witness ==
  \E i \in tempoStore :
    /\ i.span.name = "hello-endpoint"
    /\ i.hops = CollectorPath
    /\ i.span \in grafanaTraces

\* C2: the app serves its metrics on 9464, a port the node-app service
\* publishes; the collector serves metrics on 8889; the scrape targets are
\* exactly node-app:9464 and otel-collector:8889, each one an endpoint a
\* running service listens on; and while the services keep running, every
\* metric point the app records eventually is in Prometheus, scraped from
\* node-app directly.
C2_MetricsFlow ==
  /\ { << t.host, t.port >> : t \in ScrapeTargets }
       = { << "node-app", 9464 >>, << "otel-collector", 8889 >> }
  /\ 9464 \in ComposePorts["node-app"]
  /\ []( /\ Running =>
              [port |-> 9464, proto |-> "prom-metrics"] \in Listeners("node-app")
         /\ [port |-> 8889, proto |-> "prom-metrics"] \in Listeners("otel-collector")
         /\ Running =>
              \A t \in ScrapeTargets :
                Connect("prometheus", t.host, t.port, "prom-metrics") = {t.host} )
  /\ ([]Running) =>
       \A r \in Requests :
         [](PointsOf(r) # {} =>
              <>(\A m \in PointsOf(r) :
                   [point |-> m, job |-> "node-app", svc |-> "node-app"] \in promStore))

\* C2 witness: Prometheus holds a point of the app, scraped from node-app:9464,
\* and has scraped both targets successfully.
C2_Witness ==
  /\ \E s \in promStore : s.point \in recorded /\ s.svc = "node-app"
  /\ \A t \in ScrapeTargets : up[t]

\* C3: while the services keep running, every metric point the app records
\* enters the collector's metrics pipeline and is scraped by Prometheus from
\* the collector.
C3_MetricsThroughCollector ==
  ([]Running) =>
    \A r \in Requests :
      [](PointsOf(r) # {} =>
           <>(\A m \in PointsOf(r) :
                /\ m \in collectorProm
                /\ \E s \in promStore : s.point = m /\ s.svc = "otel-collector"))

\* C5: when the process has ended, no ended span was discarded: everything the
\* span processor buffered was flushed first.
C5_ShutdownDrains ==
  nodeApp = "exited" => discarded = {}
====
